---- MODULE Spec2Model ----
(***************************************************************************)
(* Model of src/legacy/interface.js: the legacy window.paypal.checkout     *)
(* API (setup, initXO, startFlow, closeFlow) emulated on top of the        *)
(* PayPalCheckout component.                                               *)
(*                                                                         *)
(* A JavaScript string is a sequence of one-character strings.  The values *)
(* undefined and null, and the two non-string paymentToken props, are the  *)
(* one-element sequences Undefined, Null, GetPaymentTokenFn, DeferToUrl,   *)
(* whose element is a word of more than one character, so that none of     *)
(* them equals a string.                                                   *)
(*                                                                         *)
(* Every function of the file is an operator from the state before the     *)
(* call to the state after it; the state carries the steps the call went   *)
(* through (trace) and whether it ended in a throw (err).  An action is    *)
(* one call into the module from outside: an entry point called by the     *)
(* page, the document-ready callback, the callback of a renderButtons      *)
(* promise, a click listener.  The collaborators (isEligible, redirect,    *)
(* the component, the merchant's click handler) may call back into         *)
(* window.paypal.checkout while such a call runs.                          *)
(*                                                                         *)
(* Five specifications share the state.  Spec: the page calls the entry    *)
(* points, buttons are wired and clicked.  FlowSpec: Spec from a state in  *)
(* which the wiring is over.  SessionSpec: components are opened and call  *)
(* back (payment authorized, payment canceled, fallback).                  *)
(* ReadyLive: window.paypalCheckoutReady before and after the document is  *)
(* ready.  ParseSpec: parseToken on a bounded set of inputs.               *)
(*                                                                         *)
(* Whether PayPalCheckout.init calls the paymentToken function before it   *)
(* returns is the component's affair: in precall mode it does, otherwise   *)
(* the component calls it in a step of its own, or never.                  *)
(*                                                                         *)
(* Left out: the locale handling of setup, the uid prop, the log sink,     *)
(* events.on and the PAYPAL aliases, which no function modelled here       *)
(* reads.                                                                  *)
(***************************************************************************)
EXTENDS Integers, Sequences, FiniteSets, TLC

\* ------------------------------------------------------------------------
\* Bounds of the model
\* ------------------------------------------------------------------------

\* components the page may initialise (each initPayPalCheckout makes one)
MaxComps == 2

\* assignments the page may make to window.paypalCheckoutReady
MaxAssign == 2

\* renderButtons promises that may be unsettled at a time
MaxPending == 2

\* ------------------------------------------------------------------------
\* Strings
\* ------------------------------------------------------------------------

Undefined == <<"undefined">>

Null == <<"null">>

GetPaymentTokenFn == <<"getPaymentToken">>

DeferToUrl == <<"PROP_DEFER_TO_URL">>

Upper == {"A", "B", "C", "D", "E", "F", "G", "H", "I", "J", "K", "L", "M",
          "N", "O", "P", "Q", "R", "S", "T", "U", "V", "W", "X", "Y", "Z"}

Digit == {"0", "1", "2", "3", "4", "5", "6", "7", "8", "9"}

\* the character class [A-Z0-9]
TokenChars == Upper \cup Digit

\* the repetition count of [A-Z0-9]{17}
TokenLen == 17

\* the literal EC- of (EC-)?
EcPrefix == <<"E", "C", "-">>

\* the literal token= of the url pattern
TokenParam == <<"t", "o", "k", "e", "n", "=">>

\* !token
Falsy(v) == v = Undefined \/ v = Null \/ v = <<>>

\* s has the literal p at position i
HasAt(s, i, p) ==
    /\ i + Len(p) - 1 <= Len(s)
    /\ SubSeq(s, i, i + Len(p) - 1) = p

\* s has n characters of [A-Z0-9] from position i on
RunAt(s, i, n) ==
    /\ i + n - 1 <= Len(s)
    /\ \A j \in i..(i + n - 1) : s[j] \in TokenChars

\* The length of the match of (EC-)?[A-Z0-9]{17} that starts at position i
\* of s, 0 when there is none.  The optional group is tried first; when the
\* text starts with EC- the alternative without the group cannot match,
\* because - is not in [A-Z0-9].
CanonAt(s, i) ==
    IF HasAt(s, i, EcPrefix) /\ RunAt(s, i + Len(EcPrefix), TokenLen)
    THEN Len(EcPrefix) + TokenLen
    ELSE IF RunAt(s, i, TokenLen) THEN TokenLen ELSE 0

\* token.match(/^(EC-)?[A-Z0-9]{17}$/)
IsBareToken(s) == CanonAt(s, 1) > 0 /\ CanonAt(s, 1) = Len(s)

\* util.matchToken(token): does the input consist of a canonical token
matchToken(token) == ~Falsy(token) /\ IsBareToken(token)

\* the start positions of the matches of /token=((EC-)?[A-Z0-9]{17})/
UrlMatches(s) ==
    {i \in 1..Len(s) : HasAt(s, i, TokenParam) /\ CanonAt(s, i + Len(TokenParam)) > 0}

SetMin(S) == CHOOSE x \in S : \A y \in S : x <= y

\* parseToken returning the whole match of the url pattern, match[0]
parseTokenWholeMatch(token) ==
    IF Falsy(token) THEN Undefined
    ELSE IF IsBareToken(token) THEN token
    ELSE IF UrlMatches(token) = {} THEN Undefined
    ELSE LET i == SetMin(UrlMatches(token))
         IN  SubSeq(token, i, i + Len(TokenParam) + CanonAt(token, i + Len(TokenParam)) - 1)

\* parseToken ending in "return token" for an input without a token
parseTokenLenient(token) ==
    IF Falsy(token) THEN Undefined
    ELSE IF IsBareToken(token) THEN token
    ELSE IF UrlMatches(token) = {} THEN token
    ELSE LET i == SetMin(UrlMatches(token)) + Len(TokenParam)
         IN  SubSeq(token, i, i + CanonAt(token, i) - 1)

parseToken(token) ==
    IF Falsy(token) THEN Undefined
    ELSE IF IsBareToken(token) THEN token
    ELSE IF UrlMatches(token) = {} THEN Undefined
    ELSE LET i == SetMin(UrlMatches(token)) + Len(TokenParam)
         IN  SubSeq(token, i, i + CanonAt(token, i) - 1)

\* config.checkoutUrl
CheckoutUrl == <<"/", "x", "o">>

QueryToken == <<"?", "t", "o", "k", "e", "n", "=">>

\* getFullpageRedirectUrl appending the input to the base url in every case
getFullpageRedirectUrlAlways(token) == CheckoutUrl \o QueryToken \o token

getFullpageRedirectUrl(token) ==
    IF matchToken(token) THEN CheckoutUrl \o QueryToken \o token ELSE token

\* ------------------------------------------------------------------------
\* Inputs the page passes to startFlow
\* ------------------------------------------------------------------------

\* "ABCDE12345FGHIJ67"
Tok17 == <<"A", "B", "C", "D", "E", "1", "2", "3", "4", "5",
           "F", "G", "H", "I", "J", "6", "7">>

\* "EC-ABCDE12345FGHIJ67"
TokEc == EcPrefix \o Tok17

\* "/r?token=" as the head of a URL
UrlHead == <<"/", "r">> \o QueryToken

\* "not-a-token"
NotAToken == <<"n", "o", "t", "-", "a", "-", "t", "o", "k", "e", "n">>

Inputs == { Undefined, <<>>, NotAToken, Tok17, UrlHead \o TokEc }

\* 'sandbox', the environment of a button that carries data-sandbox
Sandbox == <<"s", "a", "n", "d", "b", "o", "x">>

\* the inputs a collaborator passes when it calls back into the page's
\* window.paypal.checkout from inside a capture handler: parseable ones, so
\* the nested call returns normally to the collaborator
ReentrantInputs == { Tok17 }

\* ------------------------------------------------------------------------
\* State
\* ------------------------------------------------------------------------

VARIABLES
    slots,      \* window.paypal.checkout: setup, initXO, startFlow, closeFlow
    acqs,       \* the token acquisitions made by getPaymentToken, in order
    comps,      \* the components made by PayPalCheckout.init, in order
    eligible,   \* what isEligible() returns now
    listeners,  \* the click listeners handleClick has attached
    pending,    \* the environments of the setup calls whose renderButtons
                \* promise is unsettled, one entry for each call
    docReady,   \* has the document-ready callback of line 331 run
    last,       \* the steps and the outcome of the call that has just ended
    ready,      \* window.paypalCheckoutReady: was the setter installed, the
                \* function found at load, the callbacks waiting for the
                \* document, and as history the assignments the page made
                \* and the invocations of its functions
    parse,      \* an input of parseToken and, once it has run, its result
    precall     \* does PayPalCheckout.init call a paymentToken function
                \* before it returns (the component is in precall mode), or
                \* does the component call it later, if at all

vars == <<slots, acqs, comps, eligible, listeners, pending, docReady, last,
          ready, parse, precall>>

\* Function values.  Own: a function of this module.  Foreign: a function of
\* the integration that owned window.paypal.checkout before this module
\* loaded.  Capture: a closure made by the getPaymentToken call number acq.
Own(name) == [kind |-> "own", name |-> name, acq |-> 0]

Foreign(name) == [kind |-> "foreign", name |-> name, acq |-> 0]

Capture(name, k) == [kind |-> "capture", name |-> name, acq |-> k]

SlotNames == {"initXO", "startFlow", "closeFlow"}

\* One step of a call: what was done, to which acquisition or component,
\* with which string.
Ev(op, n, arg) == [op |-> op, n |-> n, arg |-> arg]

Log(st, op, n, arg) == [st EXCEPT !.trace = Append(@, Ev(op, n, arg))]

\* The state a call starts from.
Cur == [slots |-> slots, acqs |-> acqs, comps |-> comps,
        listeners |-> listeners, pending |-> pending,
        trace |-> <<>>, err |-> FALSE]

\* A synchronous call back into window.paypal.checkout made by a
\* collaborator (isEligible, redirect, updateProps, resolve, reject, close)
\* while a capture handler runs.
NoRe == [at |-> "none", slot |-> "initXO", token |-> Undefined]

HookPoints == {"isEligible", "redirect", "updateProps", "resolve", "reject", "close"}

\* the merchant's click handler is one more place a call can come from
ClickPoint == "click"

Reentries ==
    [at : HookPoints \cup {ClickPoint}, slot : SlotNames, token : ReentrantInputs]

\* the error is logged and not thrown
ThrowLogsOnly(st) == Log(st, "throw", 0, <<>>)

\* throw new Error(...)
Throw(st) == [Log(st, "throw", 0, <<>>) EXCEPT !.err = TRUE]

\* util.redirect(url)
Redirect(st, url) == Log(st, "redirect", 0, url)

\* component.updateProps({ url })
UpdateProps(st, c, url) ==
    Log([st EXCEPT !.comps[c].url = url], "updateProps", c, url)

\* component.close()
Close(st, c) ==
    Log([st EXCEPT !.comps[c].closed = TRUE], "close", c, <<>>)

\* component.render() and component.renderHijack(form), on the component
\* made last
Render(st, how) ==
    LET c == Len(st.comps)
    IN  Log([st EXCEPT !.comps[c].rendered = how], how, c, <<>>)

\* the resolve callback handed to getPaymentToken number k
Resolve(st, k, token) ==
    Log([st EXCEPT !.acqs[k].settled = Append(@, Ev("resolve", k, token))],
        "resolve", k, token)

\* the reject callback handed to getPaymentToken number k
Reject(st, k) ==
    Log([st EXCEPT !.acqs[k].settled = Append(@, Ev("reject", k, <<>>))],
        "reject", k, <<>>)

\* reset leaving the startFlow slot as it is
resetKeepsStartFlow(st) ==
    Log([st EXCEPT !.slots.initXO    = Own("initXO"),
                   !.slots.closeFlow = Own("closeFlow")],
        "reset", 0, <<>>)

\* reset() inside getPaymentToken
reset(st) ==
    Log([st EXCEPT !.slots.initXO    = Own("initXO"),
                   !.slots.startFlow = Own("startFlow"),
                   !.slots.closeFlow = Own("closeFlow")],
        "reset", 0, <<>>)

\* getPaymentToken leaving the slots alone when captures are installed
getPaymentTokenKeepsFirst(st, c) ==
    LET k  == Len(st.acqs) + 1
        s1 == [st EXCEPT !.acqs = Append(@, [comp |-> c, settled |-> <<>>,
                                             before |-> st.slots])]
    IN  IF st.slots.startFlow.kind = "capture"
        THEN Log(s1, "getPaymentToken", k, <<>>)
        ELSE Log([s1 EXCEPT !.slots.initXO    = Capture("initXO", k),
                            !.slots.startFlow = Capture("startFlow", k),
                            !.slots.closeFlow = Capture("closeFlow", k)],
                 "getPaymentToken", k, <<>>)

\* getPaymentToken(resolve, reject), called with the component c as this.
\* The record of the acquisition keeps the calls of its resolve and reject
\* and, as history, what the three slots held when it was called.
getPaymentToken(st, c) ==
    LET k == Len(st.acqs) + 1
    IN  Log([st EXCEPT !.acqs = Append(@, [comp |-> c, settled |-> <<>>,
                                           before |-> st.slots]),
                       !.slots.initXO    = Capture("initXO", k),
                       !.slots.startFlow = Capture("startFlow", k),
                       !.slots.closeFlow = Capture("closeFlow", k)],
            "getPaymentToken", k, <<>>)

\* the props initPayPalCheckout passes when the caller gives none
DefaultProps == [paymentToken |-> GetPaymentTokenFn, url |-> Undefined, env |-> Undefined]

\* initPayPalCheckout(props): PayPalCheckout.init makes the component, and
\* in precall mode calls a paymentToken that is a function at once
initPayPalCheckout(st, props) ==
    LET c  == Len(st.comps) + 1
        s1 == Log([st EXCEPT !.comps = Append(@,
                       [paymentToken |-> props.paymentToken, url |-> props.url,
                        env |-> props.env, rendered |-> "no", closed |-> FALSE])],
                  "init", c, props.paymentToken)
    IN  IF props.paymentToken = GetPaymentTokenFn /\ precall
        THEN getPaymentToken(s1, c)
        ELSE s1

\* function initXO()
initXO(st) ==
    LET s1 == Log(Log(st, "initxo", 0, <<>>), "isEligible", 0, <<>>)
    IN  IF ~eligible THEN s1
        ELSE Render(initPayPalCheckout(s1, DefaultProps), "render")

\* startFlow opening the component with the precall paymentToken
startFlowPrecall(st, token) ==
    LET s1      == Log(st, "startflow", 0, token)
        ecToken == parseToken(token)
        s2      == Log(s1, "parseToken", 0, token)
    IN  IF Falsy(ecToken) THEN Throw(s2)
        ELSE LET s3 == Log(s2, "isEligible", 0, <<>>)
             IN  IF ~eligible THEN Redirect(s3, getFullpageRedirectUrl(token))
                 ELSE Render(initPayPalCheckout(s3,
                          [DefaultProps EXCEPT
                              !.url = IF matchToken(token) THEN Null ELSE token]),
                          "render")

\* function startFlow(token)
startFlow(st, token) ==
    LET s1      == Log(st, "startflow", 0, token)
        ecToken == parseToken(token)
        s2      == Log(s1, "parseToken", 0, token)
    IN  IF Falsy(ecToken) THEN Throw(s2)
        ELSE LET s3 == Log(s2, "isEligible", 0, <<>>)
             IN  IF ~eligible THEN Redirect(s3, getFullpageRedirectUrl(token))
                 ELSE Render(initPayPalCheckout(s3,
                          [DefaultProps EXCEPT
                              !.url = IF matchToken(token) THEN Null ELSE token,
                              !.paymentToken = ecToken]), "render")

\* closeFlow closing the component made last
closeFlowClosesLast(st) ==
    IF st.comps = <<>> THEN Log(st, "closeflow", 0, <<>>)
    ELSE Close(Log(st, "closeflow", 0, <<>>), Len(st.comps))

\* function closeFlow()
closeFlow(st) == Log(st, "closeflow", 0, <<>>)

RECURSIVE Invoke(_, _, _, _)

RECURSIVE Run(_, _, _, _)

\* the collaborator step named point has run; it calls back into the page
\* when re says so: the function the slot holds at that moment runs
Reenter(st, re) ==
    Log(Invoke(Log(st, "reenter", st.slots[re.slot].acq,
                   <<re.slot, st.slots[re.slot].kind>>),
               re.slot, re.token, NoRe),
        "return", 0, <<>>)

\* The nested call has a parseable input and returns normally, so the
\* handler goes on after it.
Hook(st, point, re) == IF re.at = point THEN Reenter(st, re) ELSE st

\* the initXO capture doing what the initXO of the module does
captureInitXOInits(st, k) == initXO(Log(st, "paymenttoken_initxo", k, <<>>))

\* window.paypal.checkout.initXO as set by getPaymentToken number k
captureInitXO(st, k) == Log(st, "paymenttoken_initxo", k, <<>>)

\* the startFlow capture restoring the slots only once the input has parsed
captureStartFlowLateReset(st, k, token, re) ==
    LET c       == st.acqs[k].comp
        s1      == Log(st, "paymenttoken_startflow", k, token)
        ecToken == parseToken(token)
        s2      == Log(s1, "parseToken", 0, token)
    IN  IF Falsy(ecToken) THEN Throw(s2)
        ELSE LET s3 == Hook(Log(reset(s2), "isEligible", 0, <<>>), "isEligible", re)
             IN  IF ~eligible
                 THEN Hook(Redirect(s3, getFullpageRedirectUrl(token)), "redirect", re)
                 ELSE LET s4 == IF matchToken(token) THEN s3
                                ELSE Hook(UpdateProps(s3, c, token), "updateProps", re)
                      IN  Hook(Resolve(s4, k, ecToken), "resolve", re)

\* the startFlow capture resolving before it updates the url
captureStartFlowResolvesFirst(st, k, token, re) ==
    LET c       == st.acqs[k].comp
        s1      == reset(Log(st, "paymenttoken_startflow", k, token))
        ecToken == parseToken(token)
        s2      == Log(s1, "parseToken", 0, token)
    IN  IF Falsy(ecToken) THEN Throw(s2)
        ELSE LET s3 == Hook(Log(s2, "isEligible", 0, <<>>), "isEligible", re)
             IN  IF ~eligible
                 THEN Hook(Redirect(s3, getFullpageRedirectUrl(token)), "redirect", re)
                 ELSE LET s4 == Hook(Resolve(s3, k, ecToken), "resolve", re)
                      IN  IF matchToken(token) THEN s4
                          ELSE Hook(UpdateProps(s4, c, token), "updateProps", re)

\* window.paypal.checkout.startFlow as set by getPaymentToken number k
captureStartFlow(st, k, token, re) ==
    LET c       == st.acqs[k].comp
        s1      == reset(Log(st, "paymenttoken_startflow", k, token))
        ecToken == parseToken(token)
        s2      == Log(s1, "parseToken", 0, token)
    IN  IF Falsy(ecToken) THEN Throw(s2)
        ELSE LET s3 == Hook(Log(s2, "isEligible", 0, <<>>), "isEligible", re)
             IN  IF ~eligible
                 THEN Hook(Redirect(s3, getFullpageRedirectUrl(token)), "redirect", re)
                 ELSE LET s4 == IF matchToken(token) THEN s3
                                ELSE Hook(UpdateProps(s3, c, token), "updateProps", re)
                      IN  Hook(Resolve(s4, k, ecToken), "resolve", re)

\* the closeFlow capture closing the component before it rejects
captureCloseFlowClosesFirst(st, k, re) ==
    LET c  == st.acqs[k].comp
        s1 == reset(Log(st, "paymenttoken_closeflow", k, <<>>))
        s2 == Hook(Close(s1, c), "close", re)
    IN  Hook(Reject(s2, k), "reject", re)

\* window.paypal.checkout.closeFlow as set by getPaymentToken number k
captureCloseFlow(st, k, re) ==
    LET c  == st.acqs[k].comp
        s1 == reset(Log(st, "paymenttoken_closeflow", k, <<>>))
        s2 == Hook(Reject(s1, k), "reject", re)
    IN  Hook(Close(s2, c), "close", re)

\* the function value f is called with token
Run(st, f, token, re) ==
    CASE f.kind = "foreign" -> Log(st, "foreign", 0, <<f.name>>)
      [] f.kind = "own" /\ f.name = "initXO" -> initXO(st)
      [] f.kind = "own" /\ f.name = "startFlow" -> startFlow(st, token)
      [] f.kind = "own" /\ f.name = "closeFlow" -> closeFlow(st)
      [] f.kind = "capture" /\ f.name = "initXO" -> captureInitXO(st, f.acq)
      [] f.kind = "capture" /\ f.name = "startFlow" ->
             captureStartFlow(st, f.acq, token, re)
      [] f.kind = "capture" /\ f.name = "closeFlow" ->
             captureCloseFlow(st, f.acq, re)

\* window.paypal.checkout[slot](token): the function the slot holds now runs
Invoke(st, slot, token, re) == Run(st, st.slots[slot], token, re)

\* A click listener: does the button have a merchant click handler, does it
\* have a condition function, and the environment it was set up with.
Listener(click, condition, env) == [click |-> click, condition |-> condition, env |-> env]

\* The two kinds of button of the model: one with neither a click handler
\* nor a condition (as the marked buttons of the document are), and one
\* with both.
ButtonKinds == {[click |-> FALSE, condition |-> FALSE], [click |-> TRUE, condition |-> TRUE]}

\* the options object of setup(id, options): a button element or none, its
\* click handler and condition, an environment
SetupOptions ==
    {[button |-> b, click |-> k.click, condition |-> k.condition, environment |-> Sandbox] :
        b \in BOOLEAN, k \in ButtonKinds}

\* what the renderButtons promise can settle with: no button, or one button
RenderedButtons == {<<>>} \cup {<<k>> : k \in ButtonKinds}

\* handleClick(button, env, click, condition): attaches the listener when
\* the context is eligible now
handleClick(st, env, click, condition) ==
    LET s1 == Log(st, "isEligible", 0, <<>>)
    IN  IF ~eligible THEN s1
        ELSE Log([s1 EXCEPT !.listeners = @ \cup {Listener(click, condition, env)}],
                 "addEventListener", 0, env)

\* function setup(id, options): asks renderButtons for the buttons, and
\* wires options.button at once
setup(st, options) ==
    LET s1 == Log(st, "setup", 0, options.environment)
        s2 == Log([s1 EXCEPT !.pending = Append(@, options.environment)],
                  "renderButtons", 0, <<>>)
    IN  IF options.button
        THEN handleClick(s2, options.environment, options.click, options.condition)
        ELSE s2

RECURSIVE handleClickAll(_, _, _)

\* buttons.forEach(button => handleClick(button.el, env, button.click,
\* button.condition)) inside setup
handleClickAll(st, env, buttons) ==
    IF buttons = <<>> THEN st
    ELSE handleClickAll(handleClick(st, env, buttons[1].click, buttons[1].condition),
                        env, Tail(buttons))

\* the sequence q without its element at position i
Without(q, i) == SubSeq(q, 1, i - 1) \o SubSeq(q, i + 1, Len(q))

\* the callback of renderButtons(id, options).then inside setup, for the
\* promise of a setup call with the environment env
renderButtonsThen(st, env, buttons) ==
    LET i == SetMin({j \in DOMAIN st.pending : st.pending[j] = env})
    IN  handleClickAll([st EXCEPT !.pending = Without(@, i)], env, buttons)

\* the click listener calling the handler before it opens the component
clickListenerHandlerFirst(st, l, conditionResult, re) ==
    IF l.condition /\ ~conditionResult
    THEN Log(st, "button_click_condition_disabled", 0, <<>>)
    ELSE LET s1 == Log(st, "button_click", 0, <<>>)
         IN  IF l.click
             THEN LET s2 == Log(s1, "preventDefault", 0, <<>>)
                      s3 == Hook(Log(s2, "click", 0, <<>>), ClickPoint, re)
                  IN  Render(initPayPalCheckout(s3,
                          [DefaultProps EXCEPT !.env = l.env]), "render")
             ELSE Render(initPayPalCheckout(s1,
                      [DefaultProps EXCEPT !.env = l.env,
                                           !.paymentToken = DeferToUrl]),
                      "renderHijack")

\* the click listener of handleClick; conditionResult is what
\* condition.call() returns
clickListener(st, l, conditionResult, re) ==
    IF l.condition /\ ~conditionResult
    THEN Log(st, "button_click_condition_disabled", 0, <<>>)
    ELSE LET s1 == Log(st, "button_click", 0, <<>>)
         IN  IF l.click
             THEN LET s2 == Log(s1, "preventDefault", 0, <<>>)
                      s3 == Render(initPayPalCheckout(s2,
                                [DefaultProps EXCEPT !.env = l.env]), "render")
                  IN  Hook(Log(s3, "click", 0, <<>>), ClickPoint, re)
             ELSE Render(initPayPalCheckout(s1,
                      [DefaultProps EXCEPT !.env = l.env,
                                           !.paymentToken = DeferToUrl]),
                      "renderHijack")

\* the elements of the document that carry data-paypal-button; each also
\* carries data-sandbox
MarkedButtons == {"b1"}

RECURSIVE setupAll(_, _)

\* the loop of the document-ready callback: setup(id, { environment, button })
\* for every marked button
setupAll(st, buttons) ==
    IF buttons = {} THEN st
    ELSE LET b == CHOOSE x \in buttons : TRUE
         IN  setupAll(setup(st, [button |-> TRUE, click |-> FALSE,
                                 condition |-> FALSE, environment |-> Sandbox]),
                      buttons \ {b})

\* the callback passed to onDocumentReady at line 331
scanForButtons(st) ==
    LET s1 == Log(st, "isEligible", 0, <<>>)
    IN  IF ~eligible THEN s1 ELSE setupAll(s1, MarkedButtons)

\* ------------------------------------------------------------------------
\* window.paypalCheckoutReady
\* ------------------------------------------------------------------------

\* the functions the page has for window.paypalCheckoutReady
ReadyFns == {"f", "g"}

\* no function
NoFn == "none"

\* the two callbacks the module passes to onDocumentReady: the one for the
\* function found at load, and the one the setter makes
ReadyPassed == "paypal_checkout_ready"

ReadySetter == "paypal_checkout_ready_setter"

\* the callback runs now: it logs and calls the merchant's function
CallReady(r, cb) ==
    [r EXCEPT !.invoked = Append(@, [fn |-> cb.fn, via |-> cb.via,
                                     docReady |-> docReady])]

\* util.onDocumentReady(method): method waits for the document, and runs
\* after it is ready
onDocumentReady(r, cb) == [r EXCEPT !.queue = Append(@, cb)]

\* the setter calling the function at once
paypalCheckoutReadySetterCallsNow(r, method) ==
    CallReady(r, [fn |-> method, via |-> ReadySetter])

\* set(method) of the property defined at line 407
paypalCheckoutReadySetter(r, method) ==
    onDocumentReady(r, [fn |-> method, via |-> ReadySetter])

\* Lines 397-417 at load.  passed is the function the page has put in
\* window.paypalCheckoutReady, or none; definable says whether
\* Object.defineProperty succeeds or throws.
ReadyLoaded(passed, definable) ==
    LET r == [setter |-> definable, passed |-> passed, queue |-> <<>>,
              assigned |-> <<>>, invoked |-> <<>>]
    IN  IF passed \in ReadyFns
        THEN onDocumentReady(r, [fn |-> passed, via |-> ReadyPassed])
        ELSE r

\* parseToken has no input
NoParse == [token |-> Undefined, done |-> FALSE, ecToken |-> Undefined]

\* ------------------------------------------------------------------------
\* Actions
\* ------------------------------------------------------------------------

\* the value of last when the last step was no call into the module
NoCall == [trace |-> <<>>, err |-> FALSE]

\* The module has loaded: lines 366-388 found window.paypal.checkout either
\* without a setup function, and installed the four entry points, or with
\* one, and left the namespace as it was.
Init ==
    /\ \E pre \in BOOLEAN :
         slots = IF pre
                 THEN [setup |-> Foreign("setup"), initXO |-> Foreign("initXO"),
                       startFlow |-> Foreign("startFlow"),
                       closeFlow |-> Foreign("closeFlow")]
                 ELSE [setup |-> Own("setup"), initXO |-> Own("initXO"),
                       startFlow |-> Own("startFlow"),
                       closeFlow |-> Own("closeFlow")]
    /\ acqs = <<>>
    /\ comps = <<>>
    /\ eligible \in BOOLEAN
    /\ listeners = {}
    /\ pending = <<>>
    /\ docReady = FALSE
    /\ last = NoCall
    /\ ready = ReadyLoaded(NoFn, TRUE)
    /\ parse = NoParse
    /\ precall \in BOOLEAN

\* the steps a call went through: the places a nested call can come from
StepsOf(st) == {st.trace[i].op : i \in 1..Len(st.trace)}

\* the state after a call that ended in st
Commit(st) ==
    /\ Len(st.comps) <= MaxComps
    /\ Len(st.pending) <= MaxPending
    /\ slots' = st.slots
    /\ acqs' = st.acqs
    /\ comps' = st.comps
    /\ listeners' = st.listeners
    /\ pending' = st.pending
    /\ last' = [trace |-> st.trace, err |-> st.err]
    /\ UNCHANGED <<eligible, ready, parse, precall>>

\* the page calls window.paypal.checkout.initXO()
CallInitXO ==
    /\ \E st \in {Invoke(Log(Cur, "call", 0, <<"initXO">>), "initXO", Undefined, NoRe)} :
          Commit(st)
    /\ UNCHANGED docReady

\* the page calls window.paypal.checkout.startFlow(token)
CallStartFlow ==
    \E token \in Inputs :
        \E plain \in {Invoke(Log(Cur, "call", 0, <<"startFlow">>), "startFlow", token, NoRe)} :
            /\ \/ Commit(plain)
               \/ /\ slots.startFlow.kind = "capture"
                  /\ \E re \in Reentries :
                        /\ re.at \in StepsOf(plain)
                        /\ \E st \in {Invoke(Log(Cur, "call", 0, <<"startFlow">>),
                                               "startFlow", token, re)} : Commit(st)
            /\ UNCHANGED docReady

\* the page calls window.paypal.checkout.closeFlow()
CallCloseFlow ==
    \E plain \in {Invoke(Log(Cur, "call", 0, <<"closeFlow">>), "closeFlow", Undefined, NoRe)} :
        /\ \/ Commit(plain)
           \/ /\ slots.closeFlow.kind = "capture"
              /\ \E re \in Reentries :
                    /\ re.at \in StepsOf(plain)
                    /\ \E st \in {Invoke(Log(Cur, "call", 0, <<"closeFlow">>),
                                           "closeFlow", Undefined, re)} : Commit(st)
        /\ UNCHANGED docReady

\* the page calls window.paypal.checkout.setup(id, options)
CallSetup ==
    \E options \in SetupOptions :
        /\ \E st \in {IF slots.setup.kind = "own"
                       THEN setup(Log(Cur, "call", 0, <<"setup">>), options)
                       ELSE Log(Log(Cur, "call", 0, <<"setup">>), "foreign", 0, <<"setup">>)} :
              Commit(st)
        /\ UNCHANGED docReady

\* the document becomes ready: the callback of line 331 runs
DocumentReady ==
    /\ ~docReady
    /\ docReady' = TRUE
    /\ \E st \in {scanForButtons(Log(Cur, "documentReady", 0, <<>>))} : Commit(st)

\* a renderButtons promise settles
RenderButtonsThen ==
    /\ \E env \in {pending[i] : i \in DOMAIN pending}, buttons \in RenderedButtons :
         \E st \in {renderButtonsThen(Log(Cur, "then", 0, <<>>), env, buttons)} :
             Commit(st)
    /\ UNCHANGED docReady

\* the user clicks a wired button: one of its listeners runs
Click ==
    \E l \in listeners, conditionResult \in BOOLEAN :
        /\ ~l.condition => conditionResult
        /\ \E plain \in {clickListener(Log(Cur, "event", 0, <<"click">>), l,
                                       conditionResult, NoRe)} :
              \/ Commit(plain)
              \/ \E re \in Reentries :
                    /\ re.at \in StepsOf(plain)
                    /\ \E st \in {clickListener(Log(Cur, "event", 0, <<"click">>), l,
                                                  conditionResult, re)} : Commit(st)
        /\ UNCHANGED docReady

\* the components whose paymentToken function has been called
Asked == {acqs[k].comp : k \in DOMAIN acqs}

\* a component calls its paymentToken function after PayPalCheckout.init has
\* returned
PaymentToken ==
    /\ \E c \in DOMAIN comps \ Asked :
          /\ comps[c].paymentToken = GetPaymentTokenFn
          /\ \E st \in {getPaymentToken(Log(Cur, "event", 0, <<"paymentToken">>), c)} :
                Commit(st)
    /\ UNCHANGED docReady

\* the browsing context changes what isEligible() answers
SetEligible ==
    /\ eligible' \in BOOLEAN
    /\ eligible' # eligible
    /\ last' = NoCall
    /\ UNCHANGED <<slots, acqs, comps, listeners, pending, docReady, ready, parse,
                   precall>>

Next ==
    \/ CallInitXO
    \/ CallStartFlow
    \/ CallCloseFlow
    \/ CallSetup
    \/ DocumentReady
    \/ RenderButtonsThen
    \/ Click
    \/ PaymentToken
    \/ SetEligible

Spec == Init /\ [][Next]_vars

\* the listeners of a button without a click handler and of a button with
\* one
Wired == {Listener(k.click, k.condition, Sandbox) : k \in ButtonKinds}

\* A state of Spec in which the wiring is over: the document is ready, setup
\* has wired both kinds of button, no renderButtons promise is unsettled,
\* and no component has been opened.
FlowInit ==
    /\ \E pre \in BOOLEAN :
         slots = IF pre
                 THEN [setup |-> Foreign("setup"), initXO |-> Foreign("initXO"),
                       startFlow |-> Foreign("startFlow"),
                       closeFlow |-> Foreign("closeFlow")]
                 ELSE [setup |-> Own("setup"), initXO |-> Own("initXO"),
                       startFlow |-> Own("startFlow"),
                       closeFlow |-> Own("closeFlow")]
    /\ acqs = <<>>
    /\ comps = <<>>
    /\ eligible \in BOOLEAN
    /\ listeners = Wired
    /\ pending = <<>>
    /\ docReady = TRUE
    /\ last = NoCall
    /\ ready = ReadyLoaded(NoFn, TRUE)
    /\ parse = NoParse
    /\ precall \in BOOLEAN

\* the page calls the entry points, the buttons are clicked, the components
\* ask for their token
FlowNext ==
    \/ CallInitXO
    \/ CallStartFlow
    \/ CallCloseFlow
    \/ Click
    \/ PaymentToken
    \/ SetEligible

FlowSpec == FlowInit /\ [][FlowNext]_vars

\* ------------------------------------------------------------------------
\* Reading the steps of the call that has just ended
\* ------------------------------------------------------------------------

T == last.trace

\* the positions of the steps named in ops
Marks(ops) == {i \in 1..Len(T) : T[i].op \in ops}

\* step j belongs to the nested call a collaborator made
InNested(j) ==
    \E a \in 1..(j - 1) : T[a].op = "reenter" /\ \A b \in a..j : T[b].op # "return"

\* the steps of the function whose first step is at position i: what follows
\* it at the same depth of nesting
CallSteps(i) ==
    {j \in (i + 1)..Len(T) :
        InNested(j) = InNested(i) /\ T[j].op \notin {"reenter", "return"}}

\* the steps at positions in S that are named in ops
Among(S, ops) == {j \in S : T[j].op \in ops}

\* "/r?token=EC-ABCDE12345FGHIJ67"
UrlTokEc == UrlHead \o TokEc

\* the canonical token each parseable input of Inputs carries
Canonical == (Tok17 :> Tok17) @@ (UrlTokEc :> TokEc)

\* the full-page redirect each parseable input of Inputs leads to
RedirectTarget ==
    (Tok17 :> <<"/", "x", "o", "?", "t", "o", "k", "e", "n", "=">> \o Tok17)
        @@ (UrlTokEc :> UrlTokEc)

\* the capture of startFlow, the capture of closeFlow
CapStart == {"paymenttoken_startflow"}

CapClose == {"paymenttoken_closeflow"}

\* ------------------------------------------------------------------------
\* C1
\* ------------------------------------------------------------------------

\* C1: when the armed startFlow capture runs in an eligible context with an
\* input that carries a canonical token, resolve is called once, with that
\* canonical token, and reject is not called.
C1_ArmResolve ==
    \A i \in Marks(CapStart) :
        (eligible /\ T[i].arg \in DOMAIN Canonical) =>
            LET k == T[i].n
                S == CallSteps(i)
            IN  /\ Cardinality(Among(S, {"resolve"})) = 1
                /\ \A j \in Among(S, {"resolve"}) :
                       T[j].n = k /\ T[j].arg = Canonical[T[i].arg]
                /\ Among(S, {"reject"}) = {}
                /\ acqs[k].settled = <<Ev("resolve", k, Canonical[T[i].arg])>>

\* the capture has resolved an acquisition from a URL input
C1_Witness ==
    \E i \in Marks(CapStart) :
        /\ eligible
        /\ T[i].arg = UrlTokEc
        /\ acqs[T[i].n].settled = <<Ev("resolve", T[i].n, TokEc)>>

\* ------------------------------------------------------------------------
\* C3
\* ------------------------------------------------------------------------

\* C3: the armed closeFlow capture restores the slots, then rejects the
\* acquisition, then closes its component, in this order, and never calls
\* resolve for it.
C3_ArmReject ==
    \A i \in Marks(CapClose) :
        LET k == T[i].n
            S == CallSteps(i)
        IN  /\ Cardinality(Among(S, {"reset"})) = 1
            /\ Cardinality(Among(S, {"reject"})) = 1
            /\ Cardinality(Among(S, {"close"})) = 1
            /\ \A a \in Among(S, {"reset"}), b \in Among(S, {"reject"}),
                  c \in Among(S, {"close"}) :
                   /\ a < b /\ b < c
                   /\ T[b].n = k
                   /\ T[c].n = acqs[k].comp
            /\ Among(S, {"resolve"}) = {}
            /\ acqs[k].settled = <<Ev("reject", k, <<>>)>>
            /\ comps[acqs[k].comp].closed

\* the closeFlow capture has run and its component is closed
C3_Witness ==
    \E i \in Marks(CapClose) :
        /\ acqs[T[i].n].settled = <<Ev("reject", T[i].n, <<>>)>>
        /\ comps[acqs[T[i].n].comp].closed

\* ------------------------------------------------------------------------
\* C2
\* ------------------------------------------------------------------------

\* no collaborator called back into the page after step i
NoNestedAfter(i) == \A j \in (i + 1)..Len(T) : T[j].op # "reenter"

\* C2: after a capture handler of an acquisition has run, each of the three
\* slots holds what it held immediately before that acquisition was armed.
C2_RestoresPreArm ==
    \A i \in Marks(CapStart \cup CapClose) :
        NoNestedAfter(i) =>
            \A n \in SlotNames : slots[n] = acqs[T[i].n].before[n]

\* ------------------------------------------------------------------------
\* C4
\* ------------------------------------------------------------------------

\* C4 as claimed: when the armed startFlow capture runs with an input that
\* carries no canonical token, the acquisition is rejected and an error is
\* raised; there is no redirect and resolve is not called.
C4_RejectsAndThrows ==
    \A i \in Marks(CapStart) :
        T[i].arg \notin DOMAIN Canonical =>
            LET S == CallSteps(i)
            IN  /\ \E j \in Among(S, {"reject"}) : T[j].n = T[i].n
                /\ last.err
                /\ Among(S, {"redirect", "resolve"}) = {}

\* C4 as amended: when the armed startFlow capture runs with an input that
\* carries no canonical token, an error is raised to the caller and the
\* acquisition is left unsettled: neither reject nor resolve is called, and
\* there is no redirect.
C4_ThrowsUnsettled ==
    \A i \in Marks(CapStart) :
        T[i].arg \notin DOMAIN Canonical =>
            LET S == CallSteps(i)
            IN  /\ last.err
                /\ Cardinality(Among(S, {"throw"})) = 1
                /\ Among(S, {"redirect", "resolve", "reject", "updateProps", "close"}) = {}
                /\ acqs[T[i].n].settled = <<>>

\* the capture has run with "not-a-token" in an eligible context
C4_Witness ==
    \E i \in Marks(CapStart) :
        /\ T[i].arg = NotAToken
        /\ eligible
        /\ last.err
        /\ acqs[T[i].n].settled = <<>>

\* ------------------------------------------------------------------------
\* C5
\* ------------------------------------------------------------------------

\* C5: when startFlow, the function of the module or the armed capture,
\* runs in an ineligible context with an input that carries a canonical
\* token, it redirects once, to <checkoutUrl>?token=<input> for a bare token
\* and to the input itself for a URL, and it neither initialises nor renders
\* a component, nor updates one, nor calls resolve or reject.
C5_IneligibleRedirect ==
    \A i \in Marks(CapStart \cup {"startflow"}) :
        (~eligible /\ T[i].arg \in DOMAIN Canonical) =>
            LET S == CallSteps(i)
            IN  /\ Cardinality(Among(S, {"redirect"})) = 1
                /\ \A j \in Among(S, {"redirect"}) : T[j].arg = RedirectTarget[T[i].arg]
                /\ Among(S, {"init", "getPaymentToken", "render", "renderHijack",
                             "updateProps", "resolve", "reject", "close", "throw"}) = {}
                /\ T[i].op \in CapStart => acqs[T[i].n].settled = <<>>

\* the capture has redirected for a bare token while an acquisition was
\* pending
C5_Witness ==
    \E i \in Marks(CapStart) :
        /\ ~eligible
        /\ T[i].arg = Tok17
        /\ \E j \in CallSteps(i) : T[j].op = "redirect"
        /\ acqs[T[i].n].settled = <<>>

\* ------------------------------------------------------------------------
\* C6
\* ------------------------------------------------------------------------

\* the page has just called the slot named name and the function of the
\* module whose first step is op has run
DirectCall(l, name, op) ==
    /\ Len(l.trace) >= 2
    /\ l.trace[1] = Ev("call", 0, <<name>>)
    /\ l.trace[2].op = op

\* C6: a call of the module's startFlow with an input that carries no
\* canonical token raises an error, redirects nowhere, initialises and
\* renders nothing, and leaves the slots as they were, whether the context
\* is eligible or not.
C6_DirectNoToken ==
    [][ (DirectCall(last', "startFlow", "startflow")
            /\ last'.trace[2].arg \notin DOMAIN Canonical) =>
        /\ last'.err
        /\ \A j \in 1..Len(last'.trace) :
               last'.trace[j].op \notin {"redirect", "init", "getPaymentToken",
                                         "render", "renderHijack"}
        /\ slots' = slots
        /\ comps' = comps
        /\ acqs' = acqs ]_vars

\* startFlow("not-a-token") has just thrown in an eligible context
C6_Witness ==
    /\ DirectCall(last, "startFlow", "startflow")
    /\ T[2].arg = NotAToken
    /\ eligible
    /\ last.err

\* ------------------------------------------------------------------------
\* C7
\* ------------------------------------------------------------------------

\* C7: when window.paypal.checkout had a setup function as the module
\* loaded, its setup, initXO, startFlow and closeFlow stay the functions of
\* the first installation.
C7_FirstInstallKept ==
    slots.setup.kind = "foreign" =>
        \A n \in SlotNames \cup {"setup"} : slots[n] = Foreign(n)

\* ------------------------------------------------------------------------
\* C8
\* ------------------------------------------------------------------------

\* the captures of acquisition k are in the slots
Installed(k) ==
    \/ slots.startFlow = Capture("startFlow", k)
    \/ slots.closeFlow = Capture("closeFlow", k)

\* C8: the resolve and reject of an acquisition are called at most once in
\* total, and not at all by a step that starts when the captures of the
\* acquisition are no longer in the slots.
C8_SettledOnce ==
    [][ /\ \A k \in DOMAIN acqs' : Len(acqs'[k].settled) <= 1
        /\ \A k \in DOMAIN acqs :
               ~Installed(k) => acqs'[k].settled = acqs[k].settled ]_vars

\* an acquisition is settled and the page has called startFlow or closeFlow
\* again
C8_Witness ==
    /\ \E k \in DOMAIN acqs : Len(acqs[k].settled) = 1 /\ ~Installed(k)
    /\ \/ DirectCall(last, "startFlow", "startflow")
       \/ DirectCall(last, "closeFlow", "closeflow")

\* ------------------------------------------------------------------------
\* C9
\* ------------------------------------------------------------------------

\* C9: the first step of either capture handler is the restoration of the
\* slots, and a call a collaborator makes back into the page from any later
\* step of the handler reaches a function of the module, not a capture.
C9_ResetFirst ==
    \A i \in Marks(CapStart \cup CapClose) :
        /\ i < Len(T)
        /\ T[i + 1].op = "reset"
        /\ \A j \in (i + 1)..Len(T) :
               T[j].op = "reenter" => T[j].arg[2] = "own" /\ T[j].n = 0

\* resolve has called startFlow again from inside the startFlow capture
C9_Witness ==
    \E i \in Marks(CapStart) :
        \E j \in (i + 1)..Len(T) :
            /\ T[j].op = "reenter"
            /\ T[j].arg = <<"startFlow", "own">>
            /\ T[j - 1].op = "resolve"

\* ------------------------------------------------------------------------
\* C10
\* ------------------------------------------------------------------------

\* C10: a call of the module's closeFlow changes nothing: the slots, the
\* components and the acquisitions stay as they were, nothing is
\* initialised, rendered, closed or redirected, and no error is raised.
C10_CloseWithoutOpen ==
    [][ DirectCall(last', "closeFlow", "closeflow") =>
        /\ Len(last'.trace) = 2
        /\ ~last'.err
        /\ slots' = slots
        /\ comps' = comps
        /\ acqs' = acqs
        /\ listeners' = listeners
        /\ pending' = pending ]_vars

\* closeFlow has just been called with a component on the page and no
\* capture in the slots
C10_Witness ==
    /\ DirectCall(last, "closeFlow", "closeflow")
    /\ comps # <<>>
    /\ ~comps[Len(comps)].closed

\* ------------------------------------------------------------------------
\* The callbacks of a component: payment authorized, payment canceled,
\* fallback
\* ------------------------------------------------------------------------

\* the URLs a component hands to its callbacks
ReturnUrls == {<<"/", "d", "o", "n", "e">>, <<"#", "d", "o", "n", "e">>}

\* urlWillRedirectPage(url): the answer is the environment's
UrlWillRedirectPage(st, url, willRedirect) ==
    Log(st, "urlWillRedirectPage", IF willRedirect THEN 1 ELSE 0, url)

\* this.closeParentTemplate()
CloseParentTemplate(st, c) == Log(st, "closeParentTemplate", c, <<>>)

\* onPaymentAuthorize({ returnUrl }) of the component c
onPaymentAuthorize(st, c, returnUrl, willRedirect) ==
    LET s1 == UrlWillRedirectPage(Log(st, "payment_authorized", c, returnUrl),
                                  returnUrl, willRedirect)
        s2 == IF ~willRedirect THEN CloseParentTemplate(s1, c) ELSE s1
    IN  Redirect(s2, returnUrl)

\* onPaymentCancel redirecting before it closes the overlay
onPaymentCancelRedirectsFirst(st, c, cancelUrl, willRedirect) ==
    LET s1 == UrlWillRedirectPage(Log(st, "payment_canceled", c, cancelUrl),
                                  cancelUrl, willRedirect)
        s2 == Redirect(s1, cancelUrl)
    IN  IF ~willRedirect
        THEN CloseParentTemplate(Log(s2, "hash_change_close_overlay", c, <<>>), c)
        ELSE s2

\* onPaymentCancel({ cancelUrl }) of the component c
onPaymentCancel(st, c, cancelUrl, willRedirect) ==
    LET s1 == UrlWillRedirectPage(Log(st, "payment_canceled", c, cancelUrl),
                                  cancelUrl, willRedirect)
        s2 == IF ~willRedirect
              THEN CloseParentTemplate(Log(s1, "hash_change_close_overlay", c, <<>>), c)
              ELSE s1
    IN  Redirect(s2, cancelUrl)

\* fallback(url) of the component c
fallback(st, c, url) == Redirect(Log(st, "fallback", c, url), url)

\* the component c reports that the payment was authorized
PaymentAuthorize ==
    \E c \in DOMAIN comps, returnUrl \in ReturnUrls, willRedirect \in BOOLEAN :
        /\ \E st \in {onPaymentAuthorize(Log(Cur, "event", 0, <<"onPaymentAuthorize">>),
                                         c, returnUrl, willRedirect)} : Commit(st)
        /\ UNCHANGED docReady

\* the component c reports that the payment was canceled
PaymentCancel ==
    \E c \in DOMAIN comps, cancelUrl \in ReturnUrls, willRedirect \in BOOLEAN :
        /\ \E st \in {onPaymentCancel(Log(Cur, "event", 0, <<"onPaymentCancel">>),
                                      c, cancelUrl, willRedirect)} : Commit(st)
        /\ UNCHANGED docReady

\* the component c cannot go on in the overlay
Fallback ==
    \E c \in DOMAIN comps, url \in ReturnUrls :
        /\ \E st \in {fallback(Log(Cur, "event", 0, <<"fallback">>), c, url)} :
              Commit(st)
        /\ UNCHANGED docReady

\* components are opened by initXO and startFlow, and call back
SessionNext ==
    \/ CallInitXO
    \/ CallStartFlow
    \/ CallCloseFlow
    \/ PaymentToken
    \/ SetEligible
    \/ PaymentAuthorize
    \/ PaymentCancel
    \/ Fallback

SessionSpec == Init /\ [][SessionNext]_vars

\* ------------------------------------------------------------------------
\* C11
\* ------------------------------------------------------------------------

\* the first steps of the two callbacks
Callbacks == {"payment_authorized", "payment_canceled"}

\* C11: onPaymentAuthorize and onPaymentCancel redirect once, to the URL
\* they were given; they close the overlay of their component once when the
\* URL would not navigate the page and not at all when it would; and a close
\* comes before the redirect.
C11_CloseThenRedirect ==
    \A i \in Marks(Callbacks) :
        LET S == CallSteps(i)
        IN  /\ Cardinality(Among(S, {"redirect"})) = 1
            /\ Cardinality(Among(S, {"urlWillRedirectPage"})) = 1
            /\ \A r \in Among(S, {"redirect"}), u \in Among(S, {"urlWillRedirectPage"}) :
                   /\ T[r].arg = T[i].arg
                   /\ T[u].arg = T[i].arg
                   /\ Cardinality(Among(S, {"closeParentTemplate"})) = 1 - T[u].n
                   /\ \A a \in Among(S, {"closeParentTemplate"}) :
                          u < a /\ a < r /\ T[a].n = T[i].n

\* a payment was canceled with a URL that does not navigate the page: the
\* overlay was closed and the page redirected
C11_Witness ==
    \E i \in Marks({"payment_canceled"}) :
        \E a, r \in CallSteps(i) :
            /\ T[a].op = "closeParentTemplate"
            /\ T[r].op = "redirect"
            /\ a < r

\* ------------------------------------------------------------------------
\* C13
\* ------------------------------------------------------------------------

\* C13: a click on a wired button initialises and renders a component only
\* when the context is eligible at the time of the click; when it is not,
\* nothing is initialised or rendered and the default action of the click is
\* not prevented.
C13_ClickGated ==
    (Len(T) >= 1 /\ T[1] = Ev("event", 0, <<"click">>) /\ ~eligible) =>
        Among(1..Len(T), {"preventDefault", "init", "getPaymentToken",
                          "render", "renderHijack"}) = {}

\* ------------------------------------------------------------------------
\* C15
\* ------------------------------------------------------------------------

\* C15: a capture in a slot is a capture of the acquisition armed last, so
\* the captures of at most one acquisition are installed; and once a later
\* acquisition has been armed, no step calls the resolve or the reject of an
\* earlier one.
C15_LastArmWins ==
    [][ /\ \A n \in SlotNames :
               slots'[n].kind = "capture" => slots'[n].acq = Len(acqs')
        /\ \A k \in DOMAIN acqs :
               k < Len(acqs) => acqs'[k].settled = acqs[k].settled ]_vars

\* two acquisitions were armed, the first was never settled, and the second
\* has been settled by the call that has just ended
C15_Witness ==
    /\ Len(acqs) >= 2
    /\ acqs[1].settled = <<>>
    /\ Len(acqs[2].settled) = 1
    /\ Marks(CapStart \cup CapClose) # {}

\* ------------------------------------------------------------------------
\* C16
\* ------------------------------------------------------------------------

\* C16: a call of initXO that reaches the initXO capture changes nothing:
\* slots, components and acquisitions stay as they were and nothing is
\* initialised, rendered or redirected.  A call that reaches the initXO of
\* the module initialises and renders one component with getPaymentToken
\* as paymentToken and no url when the context is eligible (arming an
\* acquisition when the component is in precall mode), and changes nothing
\* when it is not.
C16_InitXOWhileArmed ==
    [][ /\ DirectCall(last', "initXO", "paymenttoken_initxo") =>
               /\ Len(last'.trace) = 2
               /\ ~last'.err
               /\ slots' = slots
               /\ \A n \in SlotNames : slots'[n] = Capture(n, Len(acqs))
               /\ comps' = comps
               /\ acqs' = acqs
               /\ acqs[Len(acqs)].settled = <<>>
        /\ (DirectCall(last', "initXO", "initxo") /\ ~eligible) =>
               /\ \A j \in 1..Len(last'.trace) :
                      last'.trace[j].op \notin {"init", "getPaymentToken", "render",
                                                "renderHijack", "redirect"}
               /\ ~last'.err
               /\ slots' = slots
               /\ comps' = comps
               /\ acqs' = acqs
        /\ (DirectCall(last', "initXO", "initxo") /\ eligible) =>
               /\ comps' = Append(comps, [paymentToken |-> GetPaymentTokenFn,
                                          url |-> Undefined, env |-> Undefined,
                                          rendered |-> "render", closed |-> FALSE])
               /\ Len(acqs') = Len(acqs) + (IF precall THEN 1 ELSE 0)
               /\ \A j \in 1..Len(last'.trace) : last'.trace[j].op # "redirect" ]_vars

\* initXO has just been called while an acquisition was armed, and a
\* component is on the page
C16_Witness ==
    /\ DirectCall(last, "initXO", "paymenttoken_initxo")
    /\ acqs # <<>>
    /\ acqs[Len(acqs)].settled = <<>>
    /\ slots.initXO = Capture("initXO", Len(acqs))
    /\ comps[acqs[Len(acqs)].comp].rendered = "render"

\* ------------------------------------------------------------------------
\* C17
\* ------------------------------------------------------------------------

\* C17: when the armed startFlow capture runs in an eligible context with
\* an input that carries a canonical token, a URL input is given to the
\* component of the acquisition with one updateProps, which comes before the
\* resolve; a bare token leads to no updateProps; and resolve is called in
\* both cases.
C17_UrlBeforeResolve ==
    \A i \in Marks(CapStart) :
        (eligible /\ T[i].arg \in DOMAIN Canonical) =>
            LET k == T[i].n
                S == CallSteps(i)
                U == Among(S, {"updateProps"})
            IN  /\ Among(S, {"resolve"}) # {}
                /\ matchToken(T[i].arg) => U = {}
                /\ ~matchToken(T[i].arg) =>
                       /\ Cardinality(U) = 1
                       /\ \A u \in U :
                              /\ T[u].arg = T[i].arg
                              /\ T[u].n = acqs[k].comp
                              /\ \A r \in Among(S, {"resolve"}) : u < r
                       /\ comps[acqs[k].comp].url = T[i].arg

\* the capture has run with a URL in an eligible context: the url of the
\* component is the URL and the acquisition is resolved
C17_Witness ==
    \E i \in Marks(CapStart) :
        /\ eligible
        /\ T[i].arg = UrlTokEc
        /\ comps[acqs[T[i].n].comp].url = UrlTokEc
        /\ \E u, r \in CallSteps(i) :
               T[u].op = "updateProps" /\ T[r].op = "resolve" /\ u < r

\* ------------------------------------------------------------------------
\* C18
\* ------------------------------------------------------------------------

\* C18: a call of the module's startFlow in an eligible context with an
\* input that carries a canonical token initialises and renders one
\* component, whose paymentToken is the canonical token and whose url is
\* null for a bare token and the input for a URL; getPaymentToken is not
\* called, so no acquisition is armed, and the slots stay as they were.
C18_DirectStartFlow ==
    [][ (DirectCall(last', "startFlow", "startflow")
            /\ last'.trace[2].arg \in DOMAIN Canonical /\ eligible) =>
        LET token == last'.trace[2].arg
            ops   == {last'.trace[j].op : j \in 1..Len(last'.trace)}
        IN  /\ comps' = Append(comps,
                   [paymentToken |-> Canonical[token],
                    url |-> IF token = Canonical[token] THEN Null ELSE token,
                    env |-> Undefined, rendered |-> "render", closed |-> FALSE])
            /\ Cardinality({j \in 1..Len(last'.trace) : last'.trace[j].op = "init"}) = 1
            /\ ops \cap {"getPaymentToken", "redirect", "throw", "renderHijack"} = {}
            /\ ~last'.err
            /\ acqs' = acqs
            /\ slots' = slots ]_vars

\* startFlow has just opened a component for a URL
C18_Witness ==
    /\ DirectCall(last, "startFlow", "startflow")
    /\ T[2].arg = UrlTokEc
    /\ eligible
    /\ comps # <<>>
    /\ comps[Len(comps)].paymentToken = TokEc
    /\ comps[Len(comps)].url = UrlTokEc

\* ------------------------------------------------------------------------
\* C19
\* ------------------------------------------------------------------------

\* C19: after a capture handler of an acquisition has run, whether it
\* resolved, rejected, redirected or threw, no slot holds a capture of that
\* acquisition; and unless a collaborator called back into the page during
\* the handler, the three slots hold the initXO, startFlow and closeFlow of
\* the module.
C19_NoCaptureLeft ==
    \A i \in Marks(CapStart \cup CapClose) :
        /\ \A n \in SlotNames : slots[n] # Capture(n, T[i].n)
        /\ NoNestedAfter(i) => \A n \in SlotNames : slots[n] = Own(n)

\* the startFlow capture has thrown: its acquisition is unsettled and the
\* slots hold the functions of the module
C19_Witness ==
    \E i \in Marks(CapStart) :
        /\ last.err
        /\ acqs[T[i].n].settled = <<>>
        /\ \A n \in SlotNames : slots[n] = Own(n)

\* ------------------------------------------------------------------------
\* C20
\* ------------------------------------------------------------------------

\* the steps of the click listener that has just run
ClickSteps(l, ops) == {j \in 1..Len(l.trace) : l.trace[j].op \in ops}

\* C20: when the listener of a button with a click handler runs, the
\* component is initialised with getPaymentToken as paymentToken and
\* rendered before the handler is invoked; when the component is in precall
\* mode its acquisition is armed before the handler too, a call the handler
\* makes into the page reaches a capture of that acquisition, and no second
\* component is initialised.  When the listener of a button without a click
\* handler runs, the component is initialised with the deferring
\* paymentToken and rendered by hijack, getPaymentToken is not called, and
\* slots and acquisitions stay as they were.
C20_ArmedBeforeHandler ==
    [][ (Len(last'.trace) >= 2 /\ last'.trace[1] = Ev("event", 0, <<"click">>)
            /\ last'.trace[2].op = "button_click") =>
        LET l == last'
            H == ClickSteps(l, {"click"})
            I == ClickSteps(l, {"init"})
            c == Len(comps) + 1
            k == Len(acqs) + 1
        IN  /\ H # {} =>
                   /\ \A h \in H :
                          \E i \in I, r \in ClickSteps(l, {"render"}) :
                              /\ l.trace[i] = Ev("init", c, GetPaymentTokenFn)
                              /\ i < r /\ r < h
                              /\ l.trace[r].n = c
                   /\ comps'[c].rendered = "render"
            /\ (H # {} /\ precall) =>
                   /\ \A h \in H :
                          \E a \in ClickSteps(l, {"getPaymentToken"}) :
                              /\ I = {a - 1}
                              /\ l.trace[a].n = k
                              /\ a < h
                   /\ Len(comps') = c
                   /\ Len(acqs') = k
                   /\ acqs'[k].comp = c
                   /\ \A j \in ClickSteps(l, {"reenter"}) :
                          /\ l.trace[j].n = k
                          /\ l.trace[j].arg[2] = "capture"
            /\ H = {} =>
                   /\ Cardinality(I) = 1
                   /\ Len(comps') = c
                   /\ comps'[c].paymentToken = DeferToUrl
                   /\ comps'[c].rendered = "renderHijack"
                   /\ ClickSteps(l, {"getPaymentToken", "reenter", "reset"}) = {}
                   /\ acqs' = acqs
                   /\ slots' = slots ]_vars

\* the click handler of a button has called startFlow, which resolved the
\* acquisition of the component the click opened
C20_Witness ==
    /\ Len(T) >= 2
    /\ T[1] = Ev("event", 0, <<"click">>)
    /\ \E j \in Marks({"reenter"}) :
           /\ T[j].arg = <<"startFlow", "capture">>
           /\ T[j].n = Len(acqs)
           /\ T[j - 1].op = "click"
    /\ Len(acqs[Len(acqs)].settled) = 1
    /\ acqs[Len(acqs)].comp = Len(comps)

\* ------------------------------------------------------------------------
\* parseToken on a bounded set of inputs
\* ------------------------------------------------------------------------

\* what comes before the parameter: nothing, "/r?", "/r?my", "/r?a=1&"
ParseHeads == {<<>>, <<"/", "r", "?">>, <<"/", "r", "?", "m", "y">>,
               <<"/", "r", "?", "a", "=", "1", "&">>}

\* the name of the parameter with its =, or nothing
ParseNames == {<<>>, TokenParam}

\* 16, 17 and 18 characters of [A-Z0-9], and 17 characters of which one is
\* in lower case
ParseBodies == {SubSeq(Tok17, 1, 16), Tok17, Tok17 \o <<"8">>,
                [Tok17 EXCEPT ![3] = "c"]}

\* what comes after the value: nothing, or "&x=1"
ParseTails == {<<>>, <<"&", "x", "=", "1">>}

\* absent, empty, and every head, name, optional EC-, body and tail
ParseInputs ==
    {Undefined, <<>>} \cup
    {h \o n \o e \o b \o t :
        h \in ParseHeads, n \in ParseNames, e \in {<<>>, EcPrefix},
        b \in ParseBodies, t \in ParseTails}

\* an input has been chosen and parseToken has not run
ParseInit ==
    /\ slots = [setup |-> Own("setup"), initXO |-> Own("initXO"),
                startFlow |-> Own("startFlow"), closeFlow |-> Own("closeFlow")]
    /\ acqs = <<>>
    /\ comps = <<>>
    /\ eligible = TRUE
    /\ listeners = {}
    /\ pending = <<>>
    /\ docReady = FALSE
    /\ last = NoCall
    /\ ready = ReadyLoaded(NoFn, TRUE)
    /\ \E token \in ParseInputs :
          parse = [token |-> token, done |-> FALSE, ecToken |-> Undefined]
    /\ precall = TRUE

\* parseToken(token) runs
ParseToken ==
    /\ ~parse.done
    /\ parse' = [parse EXCEPT !.done = TRUE, !.ecToken = parseToken(parse.token)]
    /\ UNCHANGED <<slots, acqs, comps, eligible, listeners, pending, docReady,
                   last, ready, precall>>

ParseNext == ParseToken

ParseSpec == ParseInit /\ [][ParseNext]_vars

\* ------------------------------------------------------------------------
\* C14
\* ------------------------------------------------------------------------

\* the characters that end the value of a query parameter, and those that
\* come before its name
ValueEnds == {"&", "#"}

NameStarts == {"?", "&"}

\* the value of the query parameter whose value starts at position j of s
ValueAt(s, j) ==
    LET E == {p \in j..Len(s) : s[p] \in ValueEnds}
    IN  SubSeq(s, j, IF E = {} THEN Len(s) ELSE SetMin(E) - 1)

\* the positions of s where a query parameter named token starts: at the
\* start of s, or after ? or &
TokenParams(s) ==
    {i \in 1..Len(s) :
        (i = 1 \/ s[i - 1] \in NameStarts) /\ HasAt(s, i, TokenParam)}

\* The reference parser: nothing for an absent or empty input, the input for
\* a canonical token, the value of the query parameter token when that value
\* is a canonical token, and nothing otherwise.
ReferenceParse(s) ==
    IF Falsy(s) THEN Undefined
    ELSE IF IsBareToken(s) THEN s
    ELSE LET V == {i \in TokenParams(s) :
                      IsBareToken(ValueAt(s, i + Len(TokenParam)))}
         IN  IF V = {} THEN Undefined
             ELSE ValueAt(s, SetMin(V) + Len(TokenParam))

\* C14: on every input of the bounded set parseToken returns what the
\* reference parser returns.
C14_AgreesWithReference ==
    parse.done => parse.ecToken = ReferenceParse(parse.token)

\* ------------------------------------------------------------------------
\* window.paypalCheckoutReady before and after the document is ready
\* ------------------------------------------------------------------------

\* The module has loaded on a page that may have put a function in
\* window.paypalCheckoutReady, and on which the property could be defined
\* or not.
ReadyInit ==
    /\ slots = [setup |-> Own("setup"), initXO |-> Own("initXO"),
                startFlow |-> Own("startFlow"), closeFlow |-> Own("closeFlow")]
    /\ acqs = <<>>
    /\ comps = <<>>
    /\ eligible \in BOOLEAN
    /\ listeners = {}
    /\ pending = <<>>
    /\ docReady = FALSE
    /\ last = NoCall
    /\ \E passed \in ReadyFns \cup {NoFn}, definable \in BOOLEAN :
          ready = ReadyLoaded(passed, definable)
    /\ parse = NoParse
    /\ precall = TRUE

\* the page assigns a function to window.paypalCheckoutReady: the setter
\* runs when the property has one
AssignReady ==
    \E method \in ReadyFns :
        /\ Len(ready.assigned) < MaxAssign
        /\ \E r \in {[ready EXCEPT !.assigned =
                         Append(@, [fn |-> method, docReady |-> docReady])]} :
              ready' = IF ready.setter THEN paypalCheckoutReadySetter(r, method)
                       ELSE r
        /\ UNCHANGED <<slots, acqs, comps, eligible, listeners, pending, docReady,
                       last, parse, precall>>

\* the document is ready and a callback passed to onDocumentReady runs
ReadyCallback ==
    /\ docReady
    /\ ready.queue # <<>>
    /\ ready' = CallReady([ready EXCEPT !.queue = Tail(@)], Head(ready.queue))
    /\ UNCHANGED <<slots, acqs, comps, eligible, listeners, pending, docReady,
                   last, parse, precall>>

ReadyNext ==
    \/ DocumentReady
    \/ AssignReady
    \/ ReadyCallback

ReadySpec == ReadyInit /\ [][ReadyNext]_vars

\* the document becomes ready, and a callback that waits for it runs
ReadyLive == ReadySpec /\ WF_vars(DocumentReady) /\ WF_vars(ReadyCallback)

\* ------------------------------------------------------------------------
\* C12
\* ------------------------------------------------------------------------

\* the assignments of f the page has made, the invocations of f
Assigned(f) ==
    Cardinality({i \in DOMAIN ready.assigned : ready.assigned[i].fn = f})

Invoked(f) ==
    Cardinality({i \in DOMAIN ready.invoked : ready.invoked[i].fn = f})

\* f was in window.paypalCheckoutReady at load: 1, else 0
Passed(f) == IF ready.passed = f THEN 1 ELSE 0

\* C12 as claimed: once the document is ready and no callback waits, every
\* function has been invoked once for having been found at load and once for
\* each assignment of it.
C12_EveryAssignmentInvoked ==
    (docReady /\ ready.queue = <<>>) =>
        \A f \in ReadyFns : Invoked(f) = Passed(f) + Assigned(f)

\* the invocations of f that are due: one when it was found at load, and one
\* for each assignment when the setter was installed
Due(f) == Passed(f) + (IF ready.setter THEN Assigned(f) ELSE 0)

\* C12 as amended: no function is invoked before the document is ready; a
\* function is never invoked more often than once for having been found at
\* load plus, when the setter was installed, once for each assignment of it;
\* and each of these invocations comes about, also for an assignment made
\* after the document was ready.
C12_InvokedOncePerScheduling ==
    /\ [](\A i \in DOMAIN ready.invoked : ready.invoked[i].docReady)
    /\ [](\A f \in ReadyFns : Invoked(f) <= Due(f))
    /\ \A f \in ReadyFns : \A n \in 1..(MaxAssign + 1) :
           (Due(f) >= n) ~> (Invoked(f) >= n)

\* a function found at load and a function assigned after the document was
\* ready have both been invoked, and nothing waits
C12_Witness ==
    /\ ready.setter
    /\ ready.passed # NoFn
    /\ ready.queue = <<>>
    /\ \E i \in DOMAIN ready.assigned : ready.assigned[i].docReady
    /\ \A f \in ReadyFns : Invoked(f) = Due(f)
    /\ Len(ready.invoked) >= 2

====
